---- MODULE Spec2Model ----
(***************************************************************************)
(* Model of src/main.py: class SyncFiles (one-way periodic synchronisation *)
(* of a source tree into a replica tree) and the __main__ polling loop.    *)
(*                                                                         *)
(* A tree is a function from the relative paths of a small universe to an  *)
(* entry (absent, directory, or file with content and mtime).  A path is   *)
(* the sequence of its components.  The three command-line paths, the      *)
(* platform separator os.sep and the two initial trees are the inputs.     *)
(***************************************************************************)
EXTENDS Integers, Sequences, FiniteSets, TLC

\* ------------------------------------------------------------------ bounds
\* number of iterations of the `while True` loop that the model follows
MaxCycles == 2
\* number of deletions the external actor of SpecExt may perform
MaxExt == 1

\* ------------------------------------------------------- universe of inputs
\* relative paths that may exist under a root
RelPaths ==
    { <<"a">>, <<"b">>, <<"a", "b">>, <<"a", "b", "c">>, <<"a", "b", "c", "f">> }

NoEntry == [kind |-> "none", content |-> 0, mtime |-> 0]
DirEntry == [kind |-> "dir", content |-> 0, mtime |-> 0]
File(c, m) == [kind |-> "file", content |-> c, mtime |-> m]

\* entries a path of the source tree / of the replica tree may hold at start:
\* together they give equal files, files of equal content and different
\* mtime, and files of different content
SourceEntries == { NoEntry, DirEntry, File(1, 1), File(2, 1) }
ReplicaEntries == { NoEntry, DirEntry, File(1, 1), File(1, 2) }

Front(p) == SubSeq(p, 1, Len(p) - 1)
IsPrefix(p, q) == Len(p) <= Len(q) /\ SubSeq(q, 1, Len(p)) = p

\* a tree is well formed when every entry's parent is a directory
WellFormed(t) ==
    \A p \in RelPaths :
        (t[p].kind # "none" /\ Len(p) > 1) =>
            (Front(p) \in RelPaths /\ t[Front(p)].kind = "dir")

SourceTrees == { t \in [RelPaths -> SourceEntries] : WellFormed(t) }
ReplicaTrees == { t \in [RelPaths -> ReplicaEntries] : WellFormed(t) }

\* sys.argv[1] and sys.argv[2] as the sequence of their components, and
\* os.sep: the backslash on Windows, the slash elsewhere
SourceRoots == { << "source" >>, << ".", "source" >>, << ".", "x", "a" >> }
ReplicaRoots == { << "replica" >>, << ".", "replica" >>, << ".", "y", "a" >> }

\* the invocation `main.py .\source .\replica <log> <n>` on Windows
StdConfig ==
    [os_sep |-> "\\", source_path |-> << ".", "source" >>, replica_path |-> << ".", "replica" >>]

Configs ==
    { [os_sep |-> "\\", source_path |-> s, replica_path |-> r] :
          s \in SourceRoots, r \in ReplicaRoots }
    \cup { [os_sep |-> "/", source_path |-> << ".", "source" >>,
            replica_path |-> << ".", "replica" >>] }

\* sys.argv[4] as the sequence of its characters; "HALF" stands for the one
\* character U+00BD (vulgar fraction one half)
Digits == { "0", "5" }
NumericChars == Digits \cup { "HALF" }
Intervals == { << "5" >>, << "0" >>, << "-", "5" >>, << "a" >>, << "HALF" >>, <<>> }

\* where sys.argv[3], the log file, lies: outside both trees, or at the
\* relative path LogName of the replica tree or of the source tree
LogPlaces == { "outside", "replica", "source" }
LogName == << "b" >>

\* the time at which the program writes a file: later than every mtime of
\* the initial trees
CopyTime == 3

\* the tree entry of the log file; what it holds is the variable log
LogFileEntry == File(0, 0)

\* the command line: argc is len(sys.argv) - 1, missing names the one of
\* sys.argv[1:4] that does not exist on disk
Argvs ==
    [ argc : { 3, 4, 5 },
      missing : { "none", "source", "replica", "log" },
      interval : Intervals ]

\* a command line that passes every test of lines 184-192 and whose interval
\* int() converts
ValidArgv == [ argc |-> 4, missing |-> "none", interval |-> << "5" >> ]

\* ------------------------------------------------------------------- state
VARIABLES
    os_sep,           \* platform path separator
    argv,             \* sys.argv
    log_at,           \* where self.log_path lies
    source_path,      \* self.source_path
    replica_path,     \* self.replica_path
    src,              \* the source tree on disk
    rep,              \* the replica tree on disk
    log,              \* the lines of the log file: <<action, path>>
    source_folders,   \* self.source_folders
    replica_folders,  \* self.replica_folders
    source_files,     \* self.source_files
    replica_files,    \* self.replica_files
    pc,               \* position of the process
    i,                \* loop index of the running for loop (1-based)
    err,              \* the uncaught exception that ended the process
    cycle,            \* number of the running iteration of the main loop
    ops,              \* history: replica mutations of the running cycle
    rep0,             \* history: the replica tree when the cycle began
    log0,             \* history: length of the log when the cycle began
    extDeleted        \* history: source files deleted by the external actor

vars == << os_sep, argv, log_at, source_path, replica_path, src, rep, log,
           source_folders, replica_folders, source_files, replica_files,
           pc, i, err, cycle, ops, rep0, log0, extDeleted >>

config == << os_sep, argv, log_at, source_path, replica_path >>
lists == << source_folders, replica_folders, source_files, replica_files >>

\* ------------------------------------------------------------ path helpers
\* s[2::]
Drop2(s) == SubSeq(s, 3, Len(s))

\* path.split("\\"): where os.sep is the backslash the parts are the path's
\* components; elsewhere the path holds no backslash and is one part
SplitBackslash(sep, path) == IF sep = "\\" THEN path ELSE << path >>

\* "\\".join(entry.path.split("\\")[2::]) for the entry at relative path p
\* under root: the recorded name, as the components that os.path.join puts
\* back under a root
RecordedName(sep, root, p) == Drop2(SplitBackslash(sep, root \o p))

\* os.path.exists(os.path.join(root, name)) in tree t rooted at root
Exists(t, name) == name = <<>> \/ (name \in RelPaths /\ t[name].kind # "none")
IsDir(t, name) == name = <<>> \/ (name \in RelPaths /\ t[name].kind = "dir")
IsFile(t, name) == name \in RelPaths /\ t[name].kind = "file"

\* entries of os.scandir(p) in tree t
Children(t, p) ==
    { q \in RelPaths : Len(q) = Len(p) + 1 /\ IsPrefix(p, q) /\ t[q].kind # "none" }

\* the orders in which os.scandir may yield a set of entries
RECURSIVE Orders(_)
Orders(S) ==
    IF S = {} THEN { <<>> }
    ELSE UNION { { <<e>> \o o : o \in Orders(S \ {e}) } : e \in S }

\* list_dirs: the lists that one call may append for directory p, every
\* directory before its descendants, siblings in scandir order
RECURSIVE list_dirs(_, _, _, _), list_dirs_entries(_, _, _, _, _)
list_dirs_entries(sep, root, t, order, k) ==
    IF k > Len(order) THEN { <<>> }
    ELSE LET e == order[k]
             rest == list_dirs_entries(sep, root, t, order, k + 1)
         IN IF t[e].kind = "dir"
            THEN { << RecordedName(sep, root, e) >> \o sub \o r :
                        sub \in list_dirs(sep, root, t, e), r \in rest }
            ELSE rest
list_dirs(sep, root, t, p) ==
    UNION { list_dirs_entries(sep, root, t, order, 1) : order \in Orders(Children(t, p)) }

\* list_files: files in scandir order, descending into directories
RECURSIVE list_files(_, _, _, _), list_files_entries(_, _, _, _, _)
list_files_entries(sep, root, t, order, k) ==
    IF k > Len(order) THEN { <<>> }
    ELSE LET e == order[k]
             rest == list_files_entries(sep, root, t, order, k + 1)
         IN IF t[e].kind = "file"
            THEN { << RecordedName(sep, root, e) >> \o r : r \in rest }
            ELSE { sub \o r : sub \in list_files(sep, root, t, e), r \in rest }
list_files(sep, root, t, p) ==
    UNION { list_files_entries(sep, root, t, order, 1) : order \in Orders(Children(t, p)) }

\* hashlib.sha256 of a file's bytes: distinct contents of the universe have
\* distinct digests
hexdigest(content) == << "sha256", content >>

\* compare_files: equality of the two digests
compare_files(f, g) == hexdigest(f.content) = hexdigest(g.content)

\* add_log: one line appended to the log file
add_log(l, action, changes_path) == Append(l, << action, changes_path >>)

\* the bytes of a log file that holds the lines l, as a content: never the
\* content of a file of SourceEntries or ReplicaEntries
LogCode(l) == 10 + Len(l)

\* the entry that open() and copy2 find at name in tree t of the given side:
\* the log file holds the lines written so far
EntryOf(side, t, name) ==
    IF log_at = side /\ name = LogName /\ t[name].kind = "file"
    THEN File(LogCode(log), t[name].mtime)
    ELSE t[name]

\* the log lines that open(file_path, "a") finds once the replica is
\* newrep: none when the log file lay in the replica and is gone
LogContent(newrep) ==
    IF log_at = "replica" /\ newrep[LogName].kind # "file" THEN <<>> ELSE log

\* the log file after copy2 has written a source file of content c to name:
\* the copied bytes when name is the log file itself
CopiedOver(name, c) ==
    IF log_at = "replica" /\ name = LogName
    THEN << << "BYTES", << ToString(c) >> >> >>
    ELSE log

\* the replica once add_log has run: open(file_path, "a") creates the log
\* file when it is missing
WithLogFile(newrep) ==
    IF log_at = "replica" THEN [newrep EXCEPT ![LogName] = LogFileEntry] ELSE newrep

\* shutil.rmtree: the directory and everything below it
rmtree(t, name) == [ q \in RelPaths |-> IF IsPrefix(name, q) THEN NoEntry ELSE t[q] ]

\* str.isnumeric(): at least one character and every character numeric
isnumeric(s) == Len(s) > 0 /\ \A k \in 1..Len(s) : s[k] \in NumericChars

\* int(s) returns a value (and does not raise ValueError): an optional sign
\* followed by at least one decimal digit
int_converts(s) ==
    LET d == IF Len(s) > 0 /\ s[1] \in { "-", "+" } THEN Tail(s) ELSE s
    IN Len(d) > 0 /\ \A k \in 1..Len(d) : d[k] \in Digits

\* int(s) is below zero: the value time.sleep refuses; int('-0') is 0
int_negative(s) ==
    /\ int_converts(s)
    /\ s[1] = "-"
    /\ \E k \in 2..Len(s) : s[k] # "0"

\* no exception has been raised
NoError == << "none", <<>>, "none" >>

\* ---------------------------------------------------------------- initial
\* the process has validated its arguments and is about to enter the loop;
\* the log file exists and is empty
InitWith(cfgs) ==
    /\ \E c \in cfgs :
        /\ os_sep = c.os_sep
        /\ source_path = c.source_path
        /\ replica_path = c.replica_path
    /\ argv = ValidArgv
    /\ log_at = "outside"
    /\ src \in SourceTrees
    /\ rep \in ReplicaTrees
    /\ log = <<>>
    /\ source_folders = <<>>
    /\ replica_folders = <<>>
    /\ source_files = <<>>
    /\ replica_files = <<>>
    /\ pc = "loop"
    /\ i = 1
    /\ err = NoError
    /\ cycle = 0
    /\ ops = <<>>
    /\ rep0 = rep
    /\ log0 = 0
    /\ extDeleted = {}

Init == InitWith(Configs)

\* the same inputs under the standard invocation only
InitStd == InitWith({ StdConfig })

\* the process is started with any command line of Argvs under the standard
\* roots and has not yet tested its arguments
InitStartup ==
    /\ os_sep = StdConfig.os_sep
    /\ source_path = StdConfig.source_path
    /\ replica_path = StdConfig.replica_path
    /\ argv \in Argvs
    /\ log_at = "outside"
    /\ src \in SourceTrees
    /\ rep \in ReplicaTrees
    /\ log = <<>>
    /\ source_folders = <<>>
    /\ replica_folders = <<>>
    /\ source_files = <<>>
    /\ replica_files = <<>>
    /\ pc = "startup"
    /\ i = 1
    /\ err = NoError
    /\ cycle = 0
    /\ ops = <<>>
    /\ rep0 = rep
    /\ log0 = 0
    /\ extDeleted = {}

\* the standard invocation with the log file at any of LogPlaces; the log
\* file exists and is empty
InitLog ==
    /\ os_sep = StdConfig.os_sep
    /\ source_path = StdConfig.source_path
    /\ replica_path = StdConfig.replica_path
    /\ argv = ValidArgv
    /\ log_at \in LogPlaces
    /\ src \in { IF log_at = "source" THEN [t EXCEPT ![LogName] = LogFileEntry] ELSE t :
                    t \in SourceTrees }
    /\ rep \in { IF log_at = "replica" THEN [t EXCEPT ![LogName] = LogFileEntry] ELSE t :
                    t \in ReplicaTrees }
    /\ log = <<>>
    /\ source_folders = <<>>
    /\ replica_folders = <<>>
    /\ source_files = <<>>
    /\ replica_files = <<>>
    /\ pc = "loop"
    /\ i = 1
    /\ err = NoError
    /\ cycle = 0
    /\ ops = <<>>
    /\ rep0 = rep
    /\ log0 = 0
    /\ extDeleted = {}

\* ----------------------------------------------------------------- actions
\* an exception nobody catches: the traceback is printed, the process ends
Raise(op, name, why) ==
    /\ pc' = "crashed"
    /\ err' = << op, name, why >>

\* lines 184-192 and 197-198: the tests of the command line
Validate ==
    /\ pc = "startup"
    /\ IF argv.argc # 4
       THEN Raise("TypeError", <<>>, "argument_count")
       ELSE IF argv.missing # "none"
       THEN Raise("FileNotFoundError", <<>>, argv.missing)
       ELSE IF ~isnumeric(argv.interval)
       THEN Raise("ValueError", <<>>, "sync_interval")
       ELSE pc' = "loop" /\ UNCHANGED err
    /\ UNCHANGED << config, src, rep, log, lists, i, cycle, ops, rep0, log0, extDeleted >>

\* a loop that starts the next cycle while the removal loop of the current
\* one is still at work: what lines 194-196 exclude
MainLoop_overlap ==
    /\ pc \in { "loop", "delete_files" }
    /\ cycle < MaxCycles
    /\ cycle' = cycle + 1
    /\ source_folders' = <<>>
    /\ replica_folders' = <<>>
    /\ source_files' = <<>>
    /\ replica_files' = <<>>
    /\ ops' = <<>>
    /\ rep0' = rep
    /\ log0' = Len(log)
    /\ pc' = "sync_folders"
    /\ i' = 1
    /\ UNCHANGED << config, src, rep, log, err, extDeleted >>

\* line 195: SyncFiles(...) builds a new object, its four lists are copies
\* of the default [] arguments; full_sync() is entered
MainLoop ==
    /\ pc = "loop"
    /\ cycle < MaxCycles
    /\ cycle' = cycle + 1
    /\ source_folders' = <<>>
    /\ replica_folders' = <<>>
    /\ source_files' = <<>>
    /\ replica_files' = <<>>
    /\ ops' = <<>>
    /\ rep0' = rep
    /\ log0' = Len(log)
    /\ pc' = "sync_folders"
    /\ i' = 1
    /\ UNCHANGED << config, src, rep, log, err, extDeleted >>

\* lines 63-64: both directory listings, appended to the object's lists
ListFolders ==
    /\ pc = "sync_folders"
    /\ \E sd \in list_dirs(os_sep, source_path, src, <<>>),
          rd \in list_dirs(os_sep, replica_path, rep, <<>>) :
        /\ source_folders' = source_folders \o sd
        /\ replica_folders' = replica_folders \o rd
    /\ pc' = "create_dirs"
    /\ i' = 1
    /\ UNCHANGED << config, src, rep, log, source_files, replica_files,
                    err, cycle, ops, rep0, log0, extDeleted >>

\* lines 67-70: one iteration of the creation loop
CreateDir ==
    /\ pc = "create_dirs"
    /\ i <= Len(source_folders)
    /\ LET d == source_folders[i] IN
        IF ~Exists(rep, d) /\ Exists(src, d)
        THEN IF IsDir(rep, Front(d))
             THEN /\ rep' = WithLogFile([rep EXCEPT ![d] = DirEntry])
                  /\ log' = add_log(LogContent(rep), "CREATED", d)
                  /\ ops' = Append(ops, << "mkdir", d >>)
                  /\ i' = i + 1
                  /\ UNCHANGED << pc, err >>
             ELSE /\ Raise("mkdir", d,
                           IF Exists(rep, Front(d)) THEN "not_a_directory" ELSE "parent_missing")
                  /\ UNCHANGED << rep, log, ops, i >>
        ELSE /\ i' = i + 1
             /\ UNCHANGED << rep, log, ops, pc, err >>
    /\ UNCHANGED << config, src, lists, cycle, rep0, log0, extDeleted >>

\* line 67: the creation loop is over
CreateDirsDone ==
    /\ pc = "create_dirs"
    /\ i > Len(source_folders)
    /\ pc' = "delete_dirs"
    /\ i' = 1
    /\ UNCHANGED << config, src, rep, log, lists, err, cycle, ops, rep0, log0, extDeleted >>

\* lines 73-76: one iteration of the deletion loop
DeleteDir ==
    /\ pc = "delete_dirs"
    /\ i <= Len(replica_folders)
    /\ LET d == replica_folders[i] IN
        IF Exists(rep, d) /\ ~Exists(src, d)
        THEN IF IsDir(rep, d)
             THEN /\ rep' = WithLogFile(rmtree(rep, d))
                  /\ log' = add_log(LogContent(rmtree(rep, d)), "REMOVED", d)
                  /\ ops' = Append(ops, << "rmtree", d >>)
                  /\ i' = i + 1
                  /\ UNCHANGED << pc, err >>
             ELSE /\ Raise("rmtree", d, "not_a_directory")
                  /\ UNCHANGED << rep, log, ops, i >>
        ELSE /\ i' = i + 1
             /\ UNCHANGED << rep, log, ops, pc, err >>
    /\ UNCHANGED << config, src, lists, cycle, rep0, log0, extDeleted >>

\* line 73: the deletion loop is over; full_sync goes on to sync_files
DeleteDirsDone ==
    /\ pc = "delete_dirs"
    /\ i > Len(replica_folders)
    /\ pc' = "sync_files"
    /\ i' = 1
    /\ UNCHANGED << config, src, rep, log, lists, err, cycle, ops, rep0, log0, extDeleted >>

\* lines 127-128: both file listings
ListFiles ==
    /\ pc = "sync_files"
    /\ \E sf \in list_files(os_sep, source_path, src, <<>>),
          rf \in list_files(os_sep, replica_path, rep, <<>>) :
        /\ source_files' = source_files \o sf
        /\ replica_files' = replica_files \o rf
    /\ pc' = "copy_check"
    /\ i' = 1
    /\ UNCHANGED << config, src, rep, log, source_folders, replica_folders,
                    err, cycle, ops, rep0, log0, extDeleted >>

\* lines 131-138: the two existence tests of one iteration of the copy loop
CopyCheck ==
    /\ pc = "copy_check"
    /\ i <= Len(source_files)
    /\ LET f == source_files[i] IN
        IF ~Exists(rep, f) /\ Exists(src, f)
        THEN pc' = "copy_new" /\ i' = i
        ELSE IF Exists(rep, f) /\ Exists(src, f)
             THEN pc' = "compare" /\ i' = i
             ELSE pc' = "copy_check" /\ i' = i + 1
    /\ UNCHANGED << config, src, rep, log, lists, err, cycle, ops, rep0, log0, extDeleted >>

\* what shutil.copy2(src_file, rep_file) raises, "ok" when it succeeds
copy2_error(f) ==
    IF ~Exists(src, f) THEN "source_missing"
    ELSE IF ~IsFile(src, f) THEN "is_a_directory"
    ELSE IF ~Exists(rep, Front(f)) THEN "parent_missing"
    ELSE IF ~IsDir(rep, Front(f)) THEN "not_a_directory"
    ELSE "ok"

\* the first half of shutil.copy2(src_file, rep_file), shutil.copyfile: the
\* source file is opened and its bytes are written to the target, which
\* gets the time of the writing
copyfile(f, next_pc) ==
    IF copy2_error(f) = "ok"
    THEN /\ rep' = [rep EXCEPT ![f] =
                        IF log_at = "replica" /\ f = LogName THEN LogFileEntry
                        ELSE File(EntryOf("source", src, f).content, CopyTime)]
         /\ log' = CopiedOver(f, src[f].content)
         /\ pc' = next_pc
         /\ UNCHANGED << err, ops, i >>
    ELSE /\ Raise("copy2", f, copy2_error(f))
         /\ UNCHANGED << rep, log, ops, i >>

\* the second half of shutil.copy2, shutil.copystat: the source is read
\* again, by os.stat, and its times are set on the target; then add_log
\* writes the line of the given action.  A source file gone since copyfile
\* makes os.stat raise: the target stays as copyfile wrote it, unlogged
copystat(f, action) ==
    IF Exists(src, f)
    THEN /\ rep' = WithLogFile([rep EXCEPT ![f].mtime = src[f].mtime])
         /\ log' = add_log(LogContent(rep), action, f)
         /\ ops' = Append(ops, << "copy2", f >>)
         /\ pc' = "copy_check"
         /\ i' = i + 1
         /\ UNCHANGED err
    ELSE /\ Raise("copy2", f, "source_missing")
         /\ ops' = Append(ops, << "copy2", f >>)
         /\ UNCHANGED << rep, log, i >>

\* line 136, first half: copy of a file the replica lacks
CopyNew ==
    /\ pc = "copy_new"
    /\ copyfile(source_files[i], "copy_new_stat")
    /\ UNCHANGED << config, src, lists, cycle, rep0, log0, extDeleted >>

\* lines 136-137: copy2 ends and the copy is logged
CopyNewStat ==
    /\ pc = "copy_new_stat"
    /\ copystat(source_files[i], "CREATED")
    /\ UNCHANGED << config, src, lists, cycle, rep0, log0, extDeleted >>

\* what compare_files(rep_file, src_file) raises: it opens its first
\* argument, the replica file, then the source file
compare_error(f) ==
    IF ~Exists(rep, f) THEN "replica_missing"
    ELSE IF ~IsFile(rep, f) THEN "is_a_directory"
    ELSE IF ~Exists(src, f) THEN "source_missing"
    ELSE IF ~IsFile(src, f) THEN "is_a_directory"
    ELSE "ok"

\* line 140: the two files are hashed and the digests compared
Compare ==
    /\ pc = "compare"
    /\ LET f == source_files[i] IN
        IF compare_error(f) = "ok"
        THEN /\ IF compare_files(EntryOf("replica", rep, f), EntryOf("source", src, f))
                THEN pc' = "copy_check" /\ i' = i + 1
                ELSE pc' = "replace_remove" /\ i' = i
             /\ UNCHANGED err
        ELSE /\ Raise("compare_files", f, compare_error(f))
             /\ UNCHANGED i
    /\ UNCHANGED << config, src, rep, log, lists, cycle, ops, rep0, log0, extDeleted >>

\* line 142: the outdated replica file is removed
ReplaceRemove ==
    /\ pc = "replace_remove"
    /\ LET f == source_files[i] IN
        /\ rep' = [rep EXCEPT ![f] = NoEntry]
        /\ log' = LogContent([rep EXCEPT ![f] = NoEntry])
        /\ ops' = Append(ops, << "remove", f >>)
    /\ pc' = "replace_copy"
    /\ UNCHANGED << config, src, lists, i, err, cycle, rep0, log0, extDeleted >>

\* line 144, first half: the source file is copied in its place
ReplaceCopy ==
    /\ pc = "replace_copy"
    /\ copyfile(source_files[i], "replace_copy_stat")
    /\ UNCHANGED << config, src, lists, cycle, rep0, log0, extDeleted >>

\* lines 144-145: copy2 ends and the replacement is logged
ReplaceCopyStat ==
    /\ pc = "replace_copy_stat"
    /\ copystat(source_files[i], "MODIFIED")
    /\ UNCHANGED << config, src, lists, cycle, rep0, log0, extDeleted >>

\* line 131: the copy loop is over
CopyDone ==
    /\ pc = "copy_check"
    /\ i > Len(source_files)
    /\ pc' = "delete_files"
    /\ i' = 1
    /\ UNCHANGED << config, src, rep, log, lists, err, cycle, ops, rep0, log0, extDeleted >>

\* lines 148-151: one iteration of the removal loop
DeleteFile ==
    /\ pc = "delete_files"
    /\ i <= Len(replica_files)
    /\ LET f == replica_files[i] IN
        IF Exists(rep, f) /\ ~Exists(src, f)
        THEN IF IsFile(rep, f)
             THEN /\ rep' = WithLogFile([rep EXCEPT ![f] = NoEntry])
                  /\ log' = add_log(LogContent([rep EXCEPT ![f] = NoEntry]), "REMOVED", f)
                  /\ ops' = Append(ops, << "remove", f >>)
                  /\ i' = i + 1
                  /\ UNCHANGED << pc, err >>
             ELSE /\ Raise("remove", f, "is_a_directory")
                  /\ UNCHANGED << rep, log, ops, i >>
        ELSE /\ i' = i + 1
             /\ UNCHANGED << rep, log, ops, pc, err >>
    /\ UNCHANGED << config, src, lists, cycle, rep0, log0, extDeleted >>

\* lines 160-163: sync_files has returned; the four lists are reset
ResetLists ==
    /\ pc = "delete_files"
    /\ i > Len(replica_files)
    /\ source_folders' = <<>>
    /\ source_files' = <<>>
    /\ replica_folders' = <<>>
    /\ replica_files' = <<>>
    /\ pc' = "sleep"
    /\ i' = 1
    /\ UNCHANGED << config, src, rep, log, err, cycle, ops, rep0, log0, extDeleted >>

\* a caller of the class catches the exception that full_sync() let through:
\* the object is left as the aborted call left it, lines 160-163 did not run
CallerCatches ==
    /\ pc = "crashed"
    /\ cycle < MaxCycles
    /\ pc' = "loop"
    /\ err' = NoError
    /\ UNCHANGED << config, src, rep, log, lists, i, cycle, ops, rep0, log0, extDeleted >>

\* full_sync() is entered again on the object of the earlier call: no
\* constructor runs, the four lists are what the earlier call left
FullSyncAgain ==
    /\ pc = "loop"
    /\ cycle >= 1
    /\ cycle < MaxCycles
    /\ cycle' = cycle + 1
    /\ ops' = <<>>
    /\ rep0' = rep
    /\ log0' = Len(log)
    /\ pc' = "sync_folders"
    /\ i' = 1
    /\ UNCHANGED << config, src, rep, log, lists, err, extDeleted >>

\* line 196: int(sys.argv[4]) is evaluated, then time.sleep returns and the
\* loop starts over; a ValueError of int(), or of time.sleep for a length
\* below zero, ends the process
Sleep ==
    /\ pc = "sleep"
    /\ IF ~int_converts(argv.interval) THEN Raise("ValueError", <<>>, "int")
       ELSE IF int_negative(argv.interval) THEN Raise("ValueError", <<>>, "sleep_length")
       ELSE pc' = "loop" /\ UNCHANGED err
    /\ UNCHANGED << config, src, rep, log, lists, i, cycle, ops, rep0, log0, extDeleted >>

\* an actor outside the program deletes a source file that the running cycle
\* has listed, at any point of the file phase
FilePhase ==
    pc \in { "copy_check", "copy_new", "copy_new_stat", "compare", "replace_remove",
             "replace_copy", "replace_copy_stat", "delete_files" }

ExtDeleteSourceFile ==
    /\ FilePhase
    /\ Cardinality(extDeleted) < MaxExt
    /\ \E p \in RelPaths :
        /\ src[p].kind = "file"
        /\ \E k \in 1..Len(source_files) :
               source_files[k] = RecordedName(os_sep, source_path, p)
        /\ src' = [src EXCEPT ![p] = NoEntry]
        /\ extDeleted' = extDeleted \cup { p }
    /\ UNCHANGED << config, rep, log, lists, pc, i, err, cycle, ops, rep0, log0 >>

Next ==
    \/ MainLoop
    \/ ListFolders
    \/ CreateDir
    \/ CreateDirsDone
    \/ DeleteDir
    \/ DeleteDirsDone
    \/ ListFiles
    \/ CopyCheck
    \/ CopyNew
    \/ CopyNewStat
    \/ Compare
    \/ ReplaceRemove
    \/ ReplaceCopy
    \/ ReplaceCopyStat
    \/ CopyDone
    \/ DeleteFile
    \/ ResetLists
    \/ Sleep

NextExt ==
    \/ Next
    \/ ExtDeleteSourceFile

NextStartup ==
    \/ Validate
    \/ Next

\* every invocation, nothing but the program touches the trees
Spec == Init /\ [][Next]_vars

\* the standard invocation, nothing but the program touches the trees
SpecStd == InitStd /\ [][Next]_vars

\* the standard invocation; the process takes its next step whenever it has one
SpecStdFair == InitStd /\ [][Next]_vars /\ WF_vars(Next)

\* the standard invocation with the external actor
SpecExt == InitStd /\ [][NextExt]_vars

\* a caller that keeps one SyncFiles object and calls full_sync() on it again,
\* after a call that returned or after one whose exception it caught
NextReuse == Next \/ CallerCatches \/ FullSyncAgain

SpecReuse == InitStd /\ [][NextReuse]_vars

\* the standard invocation with the log file in or outside the trees
SpecLog == InitLog /\ [][Next]_vars

\* the process from its start, with any command line
SpecStartup == InitStartup /\ [][NextStartup]_vars

TypeOK ==
    /\ pc \in { "startup", "loop", "sync_folders", "create_dirs", "delete_dirs", "sync_files",
                "copy_check", "copy_new", "copy_new_stat", "compare", "replace_remove",
                "replace_copy", "replace_copy_stat", "delete_files", "sleep", "crashed" }
    /\ cycle \in 0..MaxCycles
    /\ WellFormed(rep)
    /\ WellFormed(src)
    /\ (pc = "crashed") = (err # NoError)

\* ------------------------------------------------------ vocabulary of claims
DirSet(t) == { p \in RelPaths : t[p].kind = "dir" }
FileSet(t) == { p \in RelPaths : t[p].kind = "file" }

\* the replica mirrors the source: same directories, same files, same bytes
Mirrored ==
    /\ DirSet(rep) = DirSet(src)
    /\ FileSet(rep) = FileSet(src)
    /\ \A p \in FileSet(src) : rep[p].content = src[p].content

\* the log lines the running cycle has appended
CycleLog == SubSeq(log, log0 + 1, Len(log))

\* number of lines <<action, name>> among them
Logged(action, name) ==
    Cardinality({ k \in 1..Len(CycleLog) : CycleLog[k] = << action, name >> })

\* the running cycle has returned from full_sync
CycleCompleted == pc = "sleep"

\* the running cycle is over, by return or by exception
CycleOver == pc \in { "sleep", "crashed" }

\* ------------------------------------------------------------------ claims
\* C1 (convergence): when a cycle run without external mutation has
\* completed, the replica has the source's directory paths, the source's
\* file paths, and every replica file has the content of the source file at
\* the same relative path -- also when a path is a file on one side and a
\* directory on the other.
C1_Convergence == CycleCompleted => Mirrored

\* C2 (idempotence): a cycle that follows a completed cycle, with no
\* external change, mutates nothing and appends nothing to the log.
C2_Idempotence == cycle >= 2 => (ops = <<>> /\ Len(log) = log0)

\* C3 (self-healing): a cycle that failed partway, after some mutations,
\* is followed by a scheduled cycle that completes with the replica's
\* directory set and file set equal to the source's.
FailedPartway == pc = "crashed" /\ ops # <<>> /\ cycle < MaxCycles
C3_SelfHealing ==
    FailedPartway ~>
        (CycleCompleted /\ DirSet(rep) = DirSet(src) /\ FileSet(rep) = FileSet(src))

\* C4 (errors are not fatal): an error raised during a cycle never ends the
\* process; the loop goes on to sleep and to the next cycle.
C4_ErrorsNotFatal == err # NoError => pc # "crashed"

\* C5 (race tolerance): when an external actor deletes a listed source file
\* at any point after the listing, no fatal error comes of it: the process
\* is never ended by an operation that found that source file gone.
C5_RaceTolerance ==
    \A p \in extDeleted :
        ~ ( /\ pc = "crashed"
            /\ err[2] = RecordedName(os_sep, source_path, p)
            /\ err[3] = "source_missing" )

\* directories of the replica at the start of the cycle that have no entry
\* at the same relative path in the source
ReplicaOnlyDirs == { d \in RelPaths : rep0[d].kind = "dir" /\ src[d].kind = "none" }
Topmost(d) == \A q \in ReplicaOnlyDirs : IsPrefix(q, d) => q = d

\* C6 (deletion completeness): after one cycle every replica-only directory
\* is gone with all its descendants, the cycle's log holds exactly one
\* REMOVED line for each topmost such directory and none for a descendant.
C6_DeletionCompleteness ==
    CycleCompleted =>
        \A d \in ReplicaOnlyDirs :
            /\ \A q \in RelPaths : IsPrefix(d, q) => rep[q].kind = "none"
            /\ Logged("REMOVED", d) = (IF Topmost(d) THEN 1 ELSE 0)
            /\ \A q \in RelPaths : (IsPrefix(d, q) /\ q # d) => Logged("REMOVED", q) = 0

\* the path and all its ancestors were absent from the replica at the start
Absent0(p) == rep0[<< p[1] >>].kind = "none"

\* C7 (parent before child): the listing names a directory before its
\* descendants; no mkdir of the creation loop fails on a missing parent;
\* when the creation loop is over every source directory that was absent
\* from the replica exists there, and a completed cycle has copied the files
\* below them.
C7_ParentBeforeChild ==
    /\ pc = "create_dirs" =>
        \A j \in 1..Len(source_folders) : \A k \in 1..Len(source_folders) :
            (source_folders[k] # source_folders[j] /\ source_folders[k] # <<>>
                /\ IsPrefix(source_folders[k], source_folders[j]))
            => \E m \in 1..(j - 1) : source_folders[m] = source_folders[k]
    /\ ~ (pc = "crashed" /\ err[1] = "mkdir" /\ err[3] = "parent_missing")
    /\ (pc = "delete_dirs" /\ i = 1) =>
        \A p \in DirSet(src) : Absent0(p) => rep[p].kind = "dir"
    /\ CycleCompleted =>
        \A p \in FileSet(src) : (Absent0(p) /\ Len(p) > 1) => rep[p] = src[p]

\* the log lines that correspond to a sequence of replica mutations: mkdir
\* and copy of a new file give CREATED, remove followed by the copy of the
\* same file gives one MODIFIED, rmtree and any other remove give REMOVED
RECURSIVE ExpectedLog(_)
ExpectedLog(o) ==
    IF o = <<>> THEN <<>>
    ELSE LET h == Head(o) IN
         IF h[1] = "mkdir" \/ h[1] = "copy2"
         THEN << << "CREATED", h[2] >> >> \o ExpectedLog(Tail(o))
         ELSE IF h[1] = "rmtree"
         THEN << << "REMOVED", h[2] >> >> \o ExpectedLog(Tail(o))
         ELSE IF Len(o) >= 2 /\ o[2] = << "copy2", h[2] >>
         THEN << << "MODIFIED", h[2] >> >> \o ExpectedLog(Tail(Tail(o)))
         ELSE << << "REMOVED", h[2] >> >> \o ExpectedLog(Tail(o))

\* the scenario of the claim: the source holds docs/readme.txt (here the
\* directory a and the file a/b), the replica is empty
DocsReadme(t) == DirSet(t) = { << "a" >> } /\ FileSet(t) = { << "a", "b" >> }
EmptyTree(t) == DirSet(t) = {} /\ FileSet(t) = {}

\* C8 (log/mutation correspondence): the cycle's log lines are, in order,
\* one per mutation of the replica and nothing else; with docs/readme.txt in
\* the source and an empty replica the cycle logs exactly CREATED docs and
\* CREATED docs/readme.txt.
C8_LogMatchesMutations ==
    /\ pc \notin { "replace_copy", "replace_copy_stat" } => CycleLog = ExpectedLog(ops)
    /\ (CycleOver /\ cycle = 1 /\ DocsReadme(src) /\ EmptyTree(rep0)) =>
        log = << << "CREATED", << "a" >> >>, << "CREATED", << "a", "b" >> >> >>

\* C9 (content is the sole criterion): after the file phase of a cycle, a
\* path that was a file in both trees has been replaced and logged MODIFIED
\* once when the contents differed, and is untouched (mtime included) and
\* not logged when the contents were equal.
C9_ContentOnly ==
    CycleCompleted =>
        \A p \in RelPaths :
            (rep0[p].kind = "file" /\ src[p].kind = "file") =>
                IF rep0[p].content # src[p].content
                THEN /\ rep[p] = src[p]
                     /\ Logged("MODIFIED", p) = 1
                ELSE /\ rep[p] = rep0[p]
                     /\ Logged("MODIFIED", p) = 0
                     /\ Logged("CREATED", p) = 0
                     /\ Logged("REMOVED", p) = 0

\* p was still in the replica when the file phase began: no rmtree of the
\* cycle took it away
AtFilePhase(p) ==
    \A k \in 1..Len(ops) : ops[k][1] = "rmtree" => ~IsPrefix(ops[k][2], p)

\* C10 (file removal): a file that was in the replica when the file phase
\* began and has no entry at its path in the source is gone after the cycle
\* and logged REMOVED once; the removal loop deletes no file that has a
\* counterpart in the source.
C10_FileRemoval ==
    /\ CycleCompleted =>
        \A p \in RelPaths :
            (rep0[p].kind = "file" /\ AtFilePhase(p) /\ src[p].kind = "none") =>
                (rep[p].kind = "none" /\ Logged("REMOVED", p) = 1)
    /\ pc \in { "delete_files", "sleep" } =>
        \A k \in 1..Len(ops) :
            (ops[k][1] = "remove" /\ ~(k < Len(ops) /\ ops[k + 1] = << "copy2", ops[k][2] >>))
                => ~Exists(src, ops[k][2])

\* the command line is one the claim calls invalid
BadArgv ==
    \/ argv.argc # 4
    \/ argv.missing # "none"
    \/ ~int_converts(argv.interval)
    \/ int_negative(argv.interval)

\* C11 (startup validation): with a wrong argument count, a missing path
\* or an interval that is no non-negative integer, no cycle ever begins:
\* the process ends with the error before any replica mutation and any log
\* entry.
C11_FatalBeforeAnyCycle ==
    BadArgv => (cycle = 0 /\ ops = <<>> /\ log = <<>>)

\* l is an initial part of m
IsSeqPrefix(l, m) == Len(l) <= Len(m) /\ SubSeq(m, 1, Len(l)) = l

\* C12 (append-only log): wherever the log file lies, every step leaves the
\* earlier content of the log as a prefix of its new content; the log file
\* is never truncated, rewritten or deleted.
C12_LogAppendOnly == [][IsSeqPrefix(log, log')]_vars

\* the names a list holds
Recorded(l) == { l[k] : k \in 1..Len(l) }

\* C13 (root-relative paths): whatever the root path and its number of
\* components, the names list_dirs and list_files record are the paths of
\* the directories and of the files relative to the root, at every depth.
C13_RootRelativePaths ==
    /\ (pc = "create_dirs" /\ i = 1) =>
           /\ Recorded(source_folders) = DirSet(src)
           /\ Recorded(replica_folders) = DirSet(rep)
    /\ (pc = "copy_check" /\ i = 1) =>
           /\ Recorded(source_files) = FileSet(src)
           /\ Recorded(replica_files) = FileSet(rep)

\* the cycle is still in sync_folders
AtFolderPhase == pc \in { "sync_folders", "create_dirs", "delete_dirs" }

\* C14 (directories before files): within a cycle no file is copied or
\* removed while sync_folders is still at work, and at the moment sync_files
\* copies a source file, the parent of the target exists in the replica as
\* a directory.
C14_DirectoriesBeforeFiles ==
    /\ AtFolderPhase =>
           \A k \in 1..Len(ops) : ops[k][1] \in { "mkdir", "rmtree" }
    /\ pc \in { "copy_new", "replace_copy" } =>
           IsDir(rep, Front(source_files[i]))

\* C15 (strictly sequential cycles): a cycle begins only from the head of
\* the loop, the sleep begins only when the last loop of the cycle is done,
\* and the head of the loop is reached again only from the sleep; the cycle
\* count advances by one, and only when a cycle begins.
C15_SequentialCycles ==
    [][ /\ (pc' = "sync_folders") => (pc = "loop" /\ cycle' = cycle + 1)
        /\ (pc' = "sleep") => (pc = "delete_files" /\ i > Len(replica_files))
        /\ (pc' = "loop") => (pc = "sleep")
        /\ (cycle' # cycle) => (pc = "loop" /\ pc' = "sync_folders")
        /\ (pc = "sleep") => (pc' \in { "loop", "crashed" }) ]_vars

\* a second cycle has begun, after a first one that changed the replica
\* and after its sleep
C15_Witness == cycle = 2 /\ pc = "sync_folders" /\ log # <<>>

\* C16 (no state carried across cycles): every call of full_sync, on a fresh
\* object or on a reused one, also after an aborted call, starts with the
\* four lists empty, so the folder lists a cycle works on are one scan of
\* the trees as they are.
C16_ListsEmptyAtStart ==
    /\ pc = "sync_folders" =>
           /\ source_folders = <<>>
           /\ replica_folders = <<>>
           /\ source_files = <<>>
           /\ replica_files = <<>>
    /\ (pc = "create_dirs" /\ i = 1) =>
           /\ source_folders \in list_dirs(os_sep, source_path, src, <<>>)
           /\ replica_folders \in list_dirs(os_sep, replica_path, rep, <<>>)

\* what the source tree holds: its entries and, when the log file lies in
\* it, the lines of that file
SourceState == << src, IF log_at = "source" THEN log ELSE <<>> >>

\* C17 (one-way frame condition): wherever the source, the replica and the
\* log file lie, no step of any cycle creates, changes or deletes anything
\* in the source tree.
C17_SourceUnchanged == [][SourceState' = SourceState]_vars

====
